---- MODULE Spec2Model ----
(***************************************************************************)
(* Model of flexx/app/_component2.py: LocalComponent / ProxyComponent,    *)
(* the two ends of a component that lives in two runtimes connected by a  *)
(* session.  The LocalComponent holds the canonical state and forwards    *)
(* events to its sessions; the ProxyComponent forwards action calls and   *)
(* applies the events it receives.  BsdfComponentExtension passes         *)
(* components across the session as references {session_id, id}.         *)
(*                                                                         *)
(* The event primitive (flexx.event.Component: emit, _mutate, dispose)    *)
(* and the session (send_command, _register_component, delivery) are not  *)
(* part of the file; they are modelled from their documented contract.    *)
(***************************************************************************)
EXTENDS Integers, Sequences, FiniteSets, TLC

VARIABLES
    lpc,                  \* LocalComponent: "none" (not constructed), "init", "live"
    l_id,                 \* LocalComponent._id (NoId until set)
    l_sessions,           \* LocalComponent._sessions, a list of session handles
    l_disposed,           \* LocalComponent._disposed
    l_value,              \* LocalComponent property storage: name -> value
    event_types_at_proxy, \* LocalComponent.__event_types_at_proxy: session id -> event types
    registry,             \* per session: the ids of the components registered with it
    chan,                 \* per session: commands sent by the local runtime, not yet delivered
    up,                   \* per session: commands sent by the peer runtime, not yet delivered
    ppc,                  \* per session: its ProxyComponent is "none" or "live"
    p_id,                 \* per session: ProxyComponent._id
    p_sessions,           \* per session: ProxyComponent._sessions
    p_disposed,           \* per session: ProxyComponent._disposed
    p_value,              \* per session: ProxyComponent property storage
    p_init_args,          \* per session: ProxyComponent._init_args (NoArgs when not held)
    set_calls,            \* history: session id -> event types of the latest _set_event_types call
    l_emitted,            \* history: the property-change events the LocalComponent emitted, in order
    p_applied,            \* history, per session: the mutation events its session delivered
                          \* to its ProxyComponent, which applied them
    p_event_types,        \* per session: the event types the reactions of its ProxyComponent care about
    base,                 \* class pairing: what the authored class inherits from
    cls_dict,             \* class pairing: cls.__dict__, name -> member
    js_dict,              \* class pairing: the dict of cls.JS, name -> member
    m_value,              \* mirrored: per prop, the value stored on the object
    m_hash,               \* mirrored: per prop, the hash stored on the object
    m_changed,            \* mirrored: _changed_props of the object
    m_counter,            \* mirrored: Mirrored._counter
    m_ids,                \* mirrored: the ids of the instances created, in order
    nops,                 \* number of operations performed so far
    last                  \* the latest operation: its inputs, the commands it sent,
                          \* the events it emitted locally and the error it raised

vars == <<lpc, l_id, l_sessions, l_disposed, l_value, event_types_at_proxy,
          registry, chan, up, ppc, p_id, p_sessions, p_disposed, p_value,
          p_init_args, set_calls, l_emitted, p_applied, p_event_types,
          base, cls_dict, js_dict, m_value, m_hash, m_changed, m_counter, m_ids,
          nops, last>>

localVars == <<lpc, l_id, l_sessions, l_disposed, l_value, event_types_at_proxy>>
proxyVars == <<ppc, p_id, p_sessions, p_disposed, p_value, p_init_args>>
histVars == <<l_emitted, p_applied>>
pairVars == <<base, cls_dict, js_dict>>
mirrorVars == <<m_value, m_hash, m_changed, m_counter, m_ids>>

-----------------------------------------------------------------------------
(* Bounds *)

NumSessions == 2      \* number of session handles
MaxOps == 3           \* operations on a constructed LocalComponent in one behaviour
MaxProxyOps == 3      \* operations on a constructed ProxyComponent in one behaviour
MaxMutations == 2     \* property assignments on the LocalComponent in one behaviour
MaxVal == 1           \* property values and list elements range over 0..MaxVal
MaxHooks == 2         \* pushes of event types and disposals at the proxies in one behaviour
MaxLen == 3           \* longest stored list
MaxCreations == 11    \* Mirrored instances created in one behaviour

-----------------------------------------------------------------------------
(* Universe *)

Sessions == 1..NumSessions
NoSession == 0
NoId == 0
NoArgs == <<-1>>

\* session.id of a session handle
SessionId(s) == 100 + s
SessionIds == {SessionId(s) : s \in Sessions}

\* The component class of the model: two properties, one of them a list,
\* two ordinary events, two actions.
Properties == {"count", "items"}
EventNames == {"clicked", "moved"}
ActionNames == {"submit", "set_count"}
ModuleName == "flexx.app._component2"
ClassName == "Example"

Values == 0..MaxVal
BadValue == -1        \* a value the validator of count rejects

Range(seq) == {seq[i] : i \in 1..Len(seq)}

DefaultValue == [count |-> 0, items |-> <<>>]

NoInfo == [x \in {} |-> 0]

-----------------------------------------------------------------------------
(* Commands of the session protocol *)

Instantiate(id, init_args) ==
    [kind |-> "INSTANTIATE", module |-> ModuleName, name |-> ClassName,
     id |-> id, args |-> init_args, kwargs |-> NoInfo]

Invoke(id, name, args) ==
    [kind |-> "INVOKE", module |-> "", name |-> name,
     id |-> id, args |-> args, kwargs |-> NoInfo]

\* session.send_command(...) for each (session, command) of a list of calls,
\* in order: the command joins the session's outgoing queue.
RECURSIVE SendAll(_, _)
SendAll(ch, calls) ==
    IF calls = <<>> THEN ch
    ELSE LET s == Head(calls)[1]
             c == Head(calls)[2]
         IN  SendAll([ch EXCEPT ![s] = Append(@, c)], Tail(calls))

\* session._register_component(component): the session assigns an id unless
\* the component already has one, and keeps the component under that id.
RegisteredId(s, id) == IF id = NoId THEN 10 + s ELSE id

RECURSIVE RegisterAll(_, _, _)
RegisterAll(reg, sessions, id) ==
    IF sessions = <<>> THEN [reg |-> reg, id |-> id]
    ELSE LET s == Head(sessions)
             nid == RegisteredId(s, id)
         IN  RegisterAll([reg EXCEPT ![s] = @ \cup {nid}], Tail(sessions), nid)

-----------------------------------------------------------------------------
(* The event primitive *)

\* Component.emit(type, info): the event record is info with its type set;
\* it is handed to the reactions of this runtime and returned.
ComponentEmit(type, info) ==
    [k \in DOMAIN info \cup {"type"} |-> IF k = "type" THEN type ELSE info[k]]

\* The list edits of Component._mutate: objects are inserted at index, or
\* replace the elements from index on, or (objects being a number) that many
\* elements are removed from index on.  Indexes count from 0.
ListEdit(old, objects, mutation, index) ==
    LET before == SubSeq(old, 1, index)
    IN  CASE mutation = "insert" ->
                before \o objects \o SubSeq(old, index + 1, Len(old))
          [] mutation = "replace" ->
                before \o objects \o SubSeq(old, index + Len(objects) + 1, Len(old))
          [] mutation = "remove" ->
                before \o SubSeq(old, index + objects + 1, Len(old))

\* Component._mutate(prop_name, value, mutation, index) on the storage of a
\* component, as the event primitive applies a mutation that needs no more
\* validation: the new storage and the change events to emit, as (type, info).
ComponentMutate(store, prop_name, value, mutation, index) ==
    IF mutation = "set"
    THEN [value |-> [store EXCEPT ![prop_name] = value],
          events |-> IF store[prop_name] = value THEN <<>>
                     ELSE <<(<<prop_name, [mutation |-> "set", new_value |-> value]>>)>>]
    ELSE [value |-> [store EXCEPT ![prop_name] = ListEdit(@, value, mutation, index)],
          events |-> <<(<<prop_name, [mutation |-> mutation, objects |-> value,
                                     index |-> index]>>)>>]

\* The events of a list of (type, info), as Component.emit makes them.
EmittedEvents(events) == [i \in 1..Len(events) |-> ComponentEmit(events[i][1], events[i][2])]

\* The record of an operation.
Op(op, who, type, info, sends, emits, err) ==
    [op |-> op, who |-> who, type |-> type, info |-> info,
     sends |-> sends, emits |-> emits, err |-> err]

-----------------------------------------------------------------------------
(* LocalComponent *)

\* self.__event_types_at_proxy.get(session_id, [])
EventTypesAt(session_id) ==
    IF session_id \in DOMAIN event_types_at_proxy
    THEN event_types_at_proxy[session_id]
    ELSE {}

\* emit, the test of line 282: a property event goes to every session, any
\* other event to the sessions whose proxy registered its type.
ShouldForward_subscribedOnly(type, s) ==
    type \in EventTypesAt(SessionId(s))

ShouldForward_keyedByHandle(type, s) ==
    type \in Properties \/ type \in EventTypesAt(s)

ShouldForward(type, s) ==
    type \in Properties \/ type \in EventTypesAt(SessionId(s))

\* emit, lines 279-283: the send_command calls, in the order of _sessions.
RECURSIVE ForwardCalls(_, _, _)
ForwardCalls(sessions, type, ev) ==
    IF sessions = <<>> THEN <<>>
    ELSE LET s == Head(sessions)
             rest == ForwardCalls(Tail(sessions), type, ev)
         IN  IF ShouldForward(type, s)
             THEN <<(<<s, Invoke(l_id, "_emit_from_other_side", <<ev>>)>>)>> \o rest
             ELSE rest

EmitCalls_ignoresDisposed(type, ev) ==
    ForwardCalls(l_sessions, type, ev)

EmitCalls_sendsTwice(type, ev) ==
    IF ~l_disposed
    THEN ForwardCalls(l_sessions, type, ev) \o ForwardCalls(l_sessions, type, ev)
    ELSE <<>>

EmitCalls(type, ev) ==
    IF ~l_disposed THEN ForwardCalls(l_sessions, type, ev) ELSE <<>>

\* _set_event_types, line 273: the entry of session_id is replaced.
SetEntry_merges(table, session_id, event_types) ==
    [k \in DOMAIN table \cup {session_id} |->
        IF k = session_id
        THEN (IF k \in DOMAIN table THEN table[k] ELSE {}) \cup event_types
        ELSE table[k]]

SetEntry_dropsOthers(table, session_id, event_types) ==
    [k \in {session_id} |-> event_types]

SetEntry(table, session_id, event_types) ==
    [k \in DOMAIN table \cup {session_id} |->
        IF k = session_id THEN event_types ELSE table[k]]

\* The send_command calls of lines 258-266: in the Python runtime one
\* INSTANTIATE per session, with [] and {} for the arguments; init_args, the
\* arguments the component was constructed with, are not looked at.
LocalInitCalls_carriesArgs(js, sessions, id, init_args) ==
    IF js THEN <<>>
    ELSE [i \in 1..Len(sessions) |-> <<sessions[i], Instantiate(id, init_args)>>]

LocalInitCalls_sendsNothing(js, sessions, id, init_args) == <<>>

LocalInitCalls(js, sessions, id, init_args) ==
    IF js THEN <<>>
    ELSE [i \in 1..Len(sessions) |-> <<sessions[i], Instantiate(id, <<>>)>>]

\* LocalComponent._comp_init_property_values: the session given as
\* flx_session joins _sessions; in the Python runtime (js = FALSE) the
\* component is registered with its sessions and an INSTANTIATE is sent to
\* each of them, and further sessions may be attached before the constructor
\* returns; in the JavaScript runtime nothing is registered or sent.
LocalCompInit(js, flx_id, flx_session, init_args) ==
    /\ lpc = "none"
    /\ LET sessions == IF flx_session # NoSession THEN <<flx_session>> ELSE <<>>
           r == IF js THEN [reg |-> registry, id |-> flx_id]
                ELSE RegisterAll(registry, sessions, flx_id)
           calls == LocalInitCalls(js, sessions, r.id, init_args)
       IN  /\ l_sessions' = sessions
           /\ event_types_at_proxy' = NoInfo
           /\ l_id' = r.id
           /\ l_value' = DefaultValue
           /\ registry' = r.reg
           /\ chan' = SendAll(chan, calls)
           /\ last' = Op("local_init", flx_session, IF js THEN "js" ELSE "py",
                         [init_args |-> init_args, flx_id |-> flx_id], calls, <<>>, "")
    /\ lpc' = IF js THEN "live" ELSE "init"
    /\ UNCHANGED <<l_disposed, up, proxyVars, set_calls, nops>>
    /\ UNCHANGED <<histVars, p_event_types>>
    /\ UNCHANGED <<pairVars, mirrorVars>>

\* Attachment of one more session while the component is being set up: the
\* component is registered with the session (which assigns the id unless it
\* has one), the session joins _sessions and is sent an INSTANTIATE.
Attach(s) ==
    /\ lpc = "init"
    /\ s \notin Range(l_sessions)
    /\ LET r == RegisterAll(registry, <<s>>, l_id)
           calls == <<(<<s, Instantiate(r.id, <<>>)>>)>>
       IN  /\ l_sessions' = Append(l_sessions, s)
           /\ l_id' = r.id
           /\ registry' = r.reg
           /\ chan' = SendAll(chan, calls)
           /\ last' = Op("attach", s, "", NoInfo, calls, <<>>, "")
    /\ UNCHANGED <<lpc, l_disposed, l_value, event_types_at_proxy, up, proxyVars,
                   set_calls, nops>>
    /\ UNCHANGED <<histVars, p_event_types>>
    /\ UNCHANGED <<pairVars, mirrorVars>>

\* The constructor returns: the component is in use from here on.
LocalReady ==
    /\ lpc = "init"
    /\ lpc' = "live"
    /\ last' = Op("local_ready", NoSession, "", NoInfo, <<>>, <<>>, "")
    /\ UNCHANGED <<l_id, l_sessions, l_disposed, l_value, event_types_at_proxy,
                   registry, chan, up, proxyVars, set_calls, nops>>
    /\ UNCHANGED <<histVars, p_event_types>>
    /\ UNCHANGED <<pairVars, mirrorVars>>

\* LocalComponent._set_event_types(session_id, event_types), called for the peer.
SetEventTypesEffect(session_id, event_types) ==
    /\ event_types_at_proxy' = SetEntry(event_types_at_proxy, session_id, event_types)
    /\ set_calls' = [k \in DOMAIN set_calls \cup {session_id} |->
                        IF k = session_id THEN event_types ELSE set_calls[k]]
    /\ last' = Op("set_event_types", session_id, "", [event_types |-> event_types],
                  <<>>, <<>>, "")

SetEventTypes(session_id, event_types) ==
    /\ lpc # "none"
    /\ nops < MaxOps
    /\ SetEventTypesEffect(session_id, event_types)
    /\ nops' = nops + 1
    /\ UNCHANGED <<lpc, l_id, l_sessions, l_disposed, l_value, registry, chan, up,
                   proxyVars>>
    /\ UNCHANGED <<histVars, p_event_types>>
    /\ UNCHANGED <<pairVars, mirrorVars>>

\* The inputs of emit: one property event per property, and the ordinary events.
EmitInputs ==
    {<<"count", [mutation |-> "set", new_value |-> 0]>>,
     <<"items", [mutation |-> "insert", objects |-> <<0>>, index |-> 0]>>}
    \cup {<<e, NoInfo>> : e \in EventNames}

\* LocalComponent.emit(type, info)
LocalEmit(type, info) ==
    /\ lpc = "live"
    /\ nops < MaxOps
    /\ LET ev == ComponentEmit(type, info)
           calls == EmitCalls(type, ev)
       IN  /\ chan' = SendAll(chan, calls)
           /\ last' = Op("emit", NoSession, type, info, calls, <<ev>>, "")
           /\ l_emitted' = IF type \in Properties THEN Append(l_emitted, ev)
                                                  ELSE l_emitted
    /\ nops' = nops + 1
    /\ UNCHANGED <<localVars, registry, up, proxyVars, set_calls, p_applied,
                   p_event_types>>
    /\ UNCHANGED <<pairVars, mirrorVars>>

\* Component.dispose() on the LocalComponent: the flag is set, once and for all.
LocalDispose ==
    /\ lpc = "live"
    /\ nops < MaxOps
    /\ l_disposed' = TRUE
    /\ nops' = nops + 1
    /\ last' = Op("local_dispose", NoSession, "", NoInfo, <<>>, <<>>, "")
    /\ UNCHANGED <<lpc, l_id, l_sessions, l_value, event_types_at_proxy, registry,
                   chan, up, proxyVars, set_calls>>
    /\ UNCHANGED <<histVars, p_event_types>>
    /\ UNCHANGED <<pairVars, mirrorVars>>

\* The record of an operation that returns a value.
OpRet(op, who, type, info, sends, emits, err, ret) ==
    [op |-> op, who |-> who, type |-> type, info |-> info,
     sends |-> sends, emits |-> emits, err |-> err, ret |-> ret]

-----------------------------------------------------------------------------
(* ProxyComponent *)

\* ProxyComponent.__init__ and _comp_init_property_values for the proxy of
\* session slot s.  In the Python runtime (js = FALSE) the init_args are kept,
\* the component is registered, there must be exactly one session, the
\* INSTANTIATE carrying the init_args is sent and the init_args are dropped.
\* In the JavaScript runtime (js = TRUE) the proxy is made for a command that
\* came from Python: it takes no init_args, registers nothing, sends nothing.
\* The assertions of lines 313 and 357.
ProxyInitError_noSessionAssert(js, sessions, init_args) ==
    IF js /\ Len(init_args) # 0 THEN "AssertionError" ELSE ""

ProxyInitError(js, sessions, init_args) ==
    IF js /\ Len(init_args) # 0 THEN "AssertionError"
    ELSE IF ~js /\ Len(sessions) # 1 THEN "AssertionError"
    ELSE ""

\* The send_command calls of lines 358-361.
ProxyInitCalls_alsoInJs(js, sessions, id, init_args) ==
    [i \in 1..Len(sessions) |-> <<sessions[i], Instantiate(id, init_args)>>]

ProxyInitCalls(js, sessions, id, init_args) ==
    IF js THEN <<>>
    ELSE [i \in 1..Len(sessions) |-> <<sessions[i], Instantiate(id, init_args)>>]

\* _init_args once the constructor is through: set in line 318 (Python
\* only), deleted in line 362 after the INSTANTIATE is sent.
ProxyInitArgsHeld(js, sessions, init_args) ==
    IF js \/ Len(sessions) >= 1 THEN NoArgs ELSE init_args

ProxyInitEffect(s, js, flx_id, flx_session, init_args) ==
    LET sessions == IF flx_session # NoSession THEN <<flx_session>> ELSE <<>>
        r == IF js THEN [reg |-> registry, id |-> flx_id]
             ELSE RegisterAll(registry, sessions, flx_id)
        calls == ProxyInitCalls(js, sessions, r.id, init_args)
        err == ProxyInitError(js, sessions, init_args)
    IN  /\ registry' = r.reg
        /\ IF err = ""
           THEN /\ ppc' = [ppc EXCEPT ![s] = "live"]
                /\ p_id' = [p_id EXCEPT ![s] = r.id]
                /\ p_sessions' = [p_sessions EXCEPT ![s] = sessions]
                /\ p_value' = [p_value EXCEPT ![s] = DefaultValue]
                /\ p_disposed' = [p_disposed EXCEPT ![s] = FALSE]
                /\ up' = SendAll(up, calls)
                /\ last' = Op("proxy_init", s, IF js THEN "js" ELSE "py", init_args,
                              calls, <<>>, "")
                /\ p_init_args' = [p_init_args EXCEPT
                                      ![s] = ProxyInitArgsHeld(js, sessions, init_args)]
           ELSE /\ UNCHANGED <<ppc, p_id, p_sessions, p_value, p_disposed, up>>
                /\ last' = Op("proxy_init", s, IF js THEN "js" ELSE "py", init_args,
                              <<>>, <<>>, err)
                /\ p_init_args' = [p_init_args EXCEPT ![s] = NoArgs]

ProxyCompInit(s, js, flx_id, flx_session, init_args) ==
    /\ ppc[s] = "none"
    /\ ProxyInitEffect(s, js, flx_id, flx_session, init_args)
    /\ UNCHANGED <<localVars, chan, set_calls, nops>>
    /\ UNCHANGED <<histVars, p_event_types>>
    /\ UNCHANGED <<pairVars, mirrorVars>>

\* ProxyComponent._proxy_action(name, *args), lines 369-371, as every stub
\* made by make_proxy_action calls it: the send_command calls.
ProxyActionCalls_dropsArgs(s, name, args) ==
    [i \in 1..Len(p_sessions[s]) |->
        <<p_sessions[s][i], Invoke(p_id[s], name, <<>>)>>]

ProxyActionCalls(s, name, args) ==
    [i \in 1..Len(p_sessions[s]) |->
        <<p_sessions[s][i], Invoke(p_id[s], name, args)>>]

ProxyAction(s, name, args) ==
    /\ ppc[s] = "live"
    /\ nops < MaxProxyOps
    /\ LET calls == ProxyActionCalls(s, name, args)
       IN  /\ up' = SendAll(up, calls)
           /\ last' = Op("proxy_action", s, name, args, calls, <<>>, "")
    /\ nops' = nops + 1
    /\ UNCHANGED <<localVars, registry, chan, proxyVars, set_calls>>
    /\ UNCHANGED <<histVars, p_event_types>>
    /\ UNCHANGED <<pairVars, mirrorVars>>

\* ProxyComponent._mutate(*args), line 376: always raises.
ProxyMutateOutcome_applies(s, prop_name, value) ==
    LET m == ComponentMutate(p_value[s], prop_name, value, "set", -1)
    IN  [value |-> m.value, emits |-> EmittedEvents(m.events), err |-> ""]

ProxyMutateOutcome(s, prop_name, value) ==
    [value |-> p_value[s], emits |-> <<>>, err |-> "RuntimeError"]

ProxyMutate(s, prop_name, value) ==
    /\ ppc[s] = "live"
    /\ nops < MaxProxyOps
    /\ LET o == ProxyMutateOutcome(s, prop_name, value)
       IN  /\ p_value' = [p_value EXCEPT ![s] = o.value]
           /\ last' = Op("proxy_mutate", s, prop_name, [new_value |-> value],
                         <<>>, o.emits, o.err)
    /\ nops' = nops + 1
    /\ UNCHANGED <<localVars, registry, chan, up, ppc, p_id, p_sessions, p_disposed,
                   p_init_args, set_calls>>
    /\ UNCHANGED <<histVars, p_event_types>>
    /\ UNCHANGED <<pairVars, mirrorVars>>

\* ProxyComponent._emit_from_other_side(ev), lines 403-410: a property event
\* that carries a mutation is applied through Component._mutate (not through
\* the _mutate of the proxy); anything else is emitted here.
EmitFromOtherSideOutcome_ownMutate(s, ev) ==
    IF ev.type \in Properties /\ "mutation" \in DOMAIN ev
    THEN [value |-> p_value[s], emits |-> <<>>, err |-> "RuntimeError"]
    ELSE [value |-> p_value[s], emits |-> <<ComponentEmit(ev.type, ev)>>, err |-> ""]

EmitFromOtherSideOutcome_dropsEvents(s, ev) ==
    IF ev.type \in Properties /\ "mutation" \in DOMAIN ev
    THEN LET m == IF ev.mutation = "set"
                  THEN ComponentMutate(p_value[s], ev.type, ev.new_value, "set", -1)
                  ELSE ComponentMutate(p_value[s], ev.type, ev.objects, ev.mutation, ev.index)
         IN  [value |-> m.value, emits |-> EmittedEvents(m.events), err |-> ""]
    ELSE [value |-> p_value[s], emits |-> <<>>, err |-> ""]

EmitFromOtherSideOutcome(s, ev) ==
    IF ev.type \in Properties /\ "mutation" \in DOMAIN ev
    THEN LET m == IF ev.mutation = "set"
                  THEN ComponentMutate(p_value[s], ev.type, ev.new_value, "set", -1)
                  ELSE ComponentMutate(p_value[s], ev.type, ev.objects, ev.mutation, ev.index)
         IN  [value |-> m.value, emits |-> EmittedEvents(m.events), err |-> ""]
    ELSE [value |-> p_value[s], emits |-> <<ComponentEmit(ev.type, ev)>>, err |-> ""]

\* The test of line 403: a property event that carries a mutation.
IsMutationEvent(ev) == ev.type \in Properties /\ "mutation" \in DOMAIN ev

\* The send_command calls of _emit_from_other_side: it makes none.
EmitFromOtherSideCalls_echoes(s, ev) ==
    [i \in 1..Len(p_sessions[s]) |->
        <<p_sessions[s][i], Invoke(p_id[s], "_emit_from_other_side", <<ev>>)>>]

EmitFromOtherSideCalls(s, ev) == <<>>

EmitFromOtherSideEffect(s, ev) ==
    LET o == EmitFromOtherSideOutcome(s, ev)
        calls == EmitFromOtherSideCalls(s, ev)
    IN  /\ p_value' = [p_value EXCEPT ![s] = o.value]
        /\ up' = SendAll(up, calls)
        /\ last' = Op("emit_from_other_side", s, ev.type, ev, calls, o.emits, o.err)
        /\ UNCHANGED <<ppc, p_id, p_sessions, p_disposed, p_init_args>>

\* The events a peer may push to the proxy of s: whole-value mutations of
\* count (valid or not), whole-value and positional mutations of items (the
\* positions within the stored list, the result no longer than MaxLen),
\* removals, a property event without a mutation, and the ordinary events.
InboundCountEvents ==
    {[type |-> "count", mutation |-> "set", new_value |-> v] : v \in Values \cup {BadValue}}

InboundListEvents(s) ==
    LET items == p_value[s].items
    IN  {[type |-> "items", mutation |-> "set", new_value |-> l] : l \in {<<>>, <<0, 0>>}}
        \cup {[type |-> "items", mutation |-> m, objects |-> <<MaxVal>>, index |-> i] :
                m \in {"insert"}, i \in {k \in 0..Len(items) : Len(items) < MaxLen}}
        \cup {[type |-> "items", mutation |-> m, objects |-> <<MaxVal>>, index |-> i] :
                m \in {"replace"}, i \in 0..(Len(items) - 1)}

InboundRemoveEvents(s) ==
    {[type |-> "items", mutation |-> "remove", objects |-> 1, index |-> i] :
        i \in 0..(Len(p_value[s].items) - 1)}

InboundPlainEvents ==
    {[type |-> e, x |-> 0] : e \in EventNames \cup {"count"}}

EmitFromOtherSide(s, ev) ==
    /\ ppc[s] = "live"
    /\ nops < MaxProxyOps
    /\ EmitFromOtherSideEffect(s, ev)
    /\ nops' = nops + 1
    /\ UNCHANGED <<localVars, registry, chan, set_calls, histVars, p_event_types>>
    /\ UNCHANGED <<pairVars, mirrorVars>>

\* ProxyComponent._registered_reactions_hook(), lines 382-393: event_types
\* is what the primitive computed; unless the component is disposed it is
\* pushed to the session; the return in the finally clause gives event_types
\* back whether or not send_command raised.
HookOutcome_propagates(s, event_types, send_fails) ==
    IF ~p_disposed[s] /\ send_fails
    THEN [calls |-> <<>>, ret |-> {"nothing"}, err |-> "SendError"]
    ELSE [calls |-> IF p_disposed[s] THEN <<>>
                    ELSE [i \in 1..Len(p_sessions[s]) |->
                             <<p_sessions[s][i],
                               Invoke(p_id[s], "_set_event_types",
                                      <<SessionId(p_sessions[s][i]), event_types>>)>>],
          ret |-> event_types, err |-> ""]

HookOutcome_sendsHandle(s, event_types, send_fails) ==
    [calls |-> IF p_disposed[s] \/ send_fails THEN <<>>
               ELSE [i \in 1..Len(p_sessions[s]) |->
                        <<p_sessions[s][i],
                          Invoke(p_id[s], "_set_event_types",
                                 <<p_sessions[s][i], event_types>>)>>],
     ret |-> event_types, err |-> ""]

HookOutcome(s, event_types, send_fails) ==
    [calls |-> IF p_disposed[s] \/ send_fails THEN <<>>
               ELSE [i \in 1..Len(p_sessions[s]) |->
                        <<p_sessions[s][i],
                          Invoke(p_id[s], "_set_event_types",
                                 <<SessionId(p_sessions[s][i]), event_types>>)>>],
     ret |-> event_types, err |-> ""]

\* The reactions of the proxy now care about event_types, and the primitive
\* calls the hook; send_fails tells whether send_command raises.
RegisteredReactionsHook(s, event_types, send_fails) ==
    /\ ppc[s] = "live"
    /\ nops < MaxProxyOps
    /\ LET o == HookOutcome(s, event_types, send_fails)
       IN  /\ up' = SendAll(up, o.calls)
           /\ last' = OpRet("registered_reactions_hook", s, "",
                            [event_types |-> event_types, send_fails |-> send_fails],
                            o.calls, <<>>, o.err, o.ret)
    /\ p_event_types' = [p_event_types EXCEPT ![s] = event_types]
    /\ nops' = nops + 1
    /\ UNCHANGED <<localVars, registry, chan, proxyVars, set_calls, histVars>>
    /\ UNCHANGED <<pairVars, mirrorVars>>

\* Component.dispose() on the ProxyComponent.
ProxyDispose(s) ==
    /\ ppc[s] = "live"
    /\ nops < MaxProxyOps
    /\ p_disposed' = [p_disposed EXCEPT ![s] = TRUE]
    /\ nops' = nops + 1
    /\ last' = Op("proxy_dispose", s, "", NoInfo, <<>>, <<>>, "")
    /\ UNCHANGED <<localVars, registry, chan, up, ppc, p_id, p_sessions, p_value,
                   p_init_args, set_calls>>
    /\ UNCHANGED <<histVars, p_event_types>>
    /\ UNCHANGED <<pairVars, mirrorVars>>

-----------------------------------------------------------------------------
(* The two runtimes together *)

\* The validator of the count property: what is stored for a value, or
\* BadValue when the value is rejected.
ValidateCount(v) == IF v \in Values THEN v ELSE BadValue

\* emit, for each change event of a mutation in turn: the send_command calls.
RECURSIVE EmitCallsOfAll(_)
EmitCallsOfAll(events) ==
    IF events = <<>> THEN <<>>
    ELSE EmitCalls(Head(events)[1], ComponentEmit(Head(events)[1], Head(events)[2]))
         \o EmitCallsOfAll(Tail(events))

\* An assignment to the count property on the LocalComponent (the action
\* set_count(v) running in the runtime that owns the component): the value is
\* validated and stored and the change is emitted through
\* LocalComponent.emit; a rejected value raises here and changes nothing.
LocalSetCount(v) ==
    /\ lpc = "live"
    /\ nops < MaxMutations
    /\ IF ValidateCount(v) = BadValue
       THEN /\ UNCHANGED <<l_value, chan, l_emitted>>
            /\ last' = Op("set_count", NoSession, "count", [new_value |-> v],
                          <<>>, <<>>, "TypeError")
       ELSE LET m == ComponentMutate(l_value, "count", ValidateCount(v), "set", -1)
                calls == EmitCallsOfAll(m.events)
            IN  /\ l_value' = m.value
                /\ chan' = SendAll(chan, calls)
                /\ last' = Op("set_count", NoSession, "count", [new_value |-> v],
                              calls, EmittedEvents(m.events), "")
                /\ l_emitted' = l_emitted \o EmittedEvents(m.events)
    /\ nops' = nops + 1
    /\ UNCHANGED <<lpc, l_id, l_sessions, l_disposed, event_types_at_proxy, registry,
                   up, proxyVars, set_calls, p_applied, p_event_types>>
    /\ UNCHANGED <<pairVars, mirrorVars>>

\* The session delivers the oldest command sent to the peer of s, which
\* executes it: INSTANTIATE makes the proxy, bound to the session and to the
\* id; INVOKE looks the component up by id and calls the method.
Deliver(s) ==
    /\ chan[s] # <<>>
    /\ chan' = [chan EXCEPT ![s] = Tail(@)]
    /\ LET c == Head(chan[s])
       IN  IF c.kind = "INSTANTIATE" /\ ppc[s] = "none"
           THEN ProxyInitEffect(s, TRUE, c.id, s, c.args) /\ UNCHANGED p_applied
           ELSE IF c.kind = "INVOKE" /\ ppc[s] = "live" /\ p_id[s] = c.id
                   /\ c.name = "_emit_from_other_side"
           THEN /\ EmitFromOtherSideEffect(s, c.args[1])
                /\ p_applied' = IF IsMutationEvent(c.args[1])
                                THEN [p_applied EXCEPT ![s] = Append(@, c.args[1])]
                                ELSE p_applied
                /\ UNCHANGED registry
           ELSE /\ last' = Op("deliver", s, c.name, NoInfo, <<>>, <<>>, "LookupError")
                /\ UNCHANGED <<registry, up, proxyVars, p_applied>>
    /\ UNCHANGED <<localVars, set_calls, nops, l_emitted, p_event_types>>
    /\ UNCHANGED <<pairVars, mirrorVars>>

\* The session delivers the oldest command the peer of s sent to this
\* runtime: an INVOKE looks the component up by id and calls the method.
DeliverUp(s) ==
    /\ up[s] # <<>>
    /\ up' = [up EXCEPT ![s] = Tail(@)]
    /\ LET c == Head(up[s])
       IN  IF c.kind = "INVOKE" /\ lpc # "none" /\ l_id = c.id
              /\ c.name = "_set_event_types"
           THEN SetEventTypesEffect(c.args[1], c.args[2])
           ELSE /\ last' = Op("deliver_up", s, c.name, NoInfo, <<>>, <<>>, "LookupError")
                /\ UNCHANGED <<event_types_at_proxy, set_calls>>
    /\ UNCHANGED <<lpc, l_id, l_sessions, l_disposed, l_value, registry, chan,
                   proxyVars, histVars, p_event_types, nops>>
    /\ UNCHANGED <<pairVars, mirrorVars>>

-----------------------------------------------------------------------------
(* BsdfComponentExtension: components as references *)

\* An id no session has registered, and the id of no session.
UnknownId == 99
UnknownSessionId == SessionId(NoSession)

\* The ids a component can be registered under.
KnownIds == {7} \cup {RegisteredId(s, NoId) : s \in Sessions}

\* The components at hand: the LocalComponent (NoSession) and the
\* ProxyComponent of each session.
Components == {NoSession} \cup Sessions
Exists(c) == IF c = NoSession THEN lpc # "none" ELSE ppc[c] = "live"
CompSessions(c) == IF c = NoSession THEN l_sessions ELSE p_sessions[c]
CompId(c) == IF c = NoSession THEN l_id ELSE p_id[c]

\* What encode and decode give back: a component (the instance registered
\* with a session under an id), a reference, the raw id, the marker
\* 'unknown_component', nothing at all (None), or an exception.
Ret(kind, session_id, id) == [kind |-> kind, session_id |-> session_id, id |-> id]

\* A lookup that does not find its key either raises or returns nothing:
\* get_session_by_id, get_component_instance_by_id and get_instance belong
\* to the session, which decides.
MissOutcomes == {"raises", "none"}

\* encode(c) and encode_js(c), lines 452-454 and 468-470.
EncodeOutcome_noAssert(sessions, id) ==
    IF Len(sessions) >= 1
    THEN Ret("reference", SessionId(sessions[1]), id)
    ELSE Ret("raised", NoSession, NoId)

EncodeOutcome(sessions, id) ==
    IF Len(sessions) = 1
    THEN Ret("reference", SessionId(sessions[1]), id)
    ELSE Ret("raised", NoSession, NoId)

\* The session with the given id, NoSession when there is none.
SessionById(session_id) ==
    IF session_id \in SessionIds
    THEN CHOOSE s \in Sessions : SessionId(s) = session_id
    ELSE NoSession

\* decode(d), lines 456-461: both lookups inside try, every exception
\* answered with d.get('id', 'unknown_component').
PyDecodeOutcome_neverResolves(d, miss) ==
    IF "id" \in DOMAIN d THEN Ret("raw_id", NoSession, d.id)
    ELSE Ret("unknown_component", NoSession, NoId)

PyDecodeOutcome(d, miss) ==
    LET fallback == IF "id" \in DOMAIN d THEN Ret("raw_id", NoSession, d.id)
                    ELSE Ret("unknown_component", NoSession, NoId)
        s == IF "session_id" \in DOMAIN d THEN SessionById(d.session_id) ELSE NoSession
    IN  IF s = NoSession THEN fallback
        ELSE IF "id" \notin DOMAIN d THEN fallback
        ELSE IF d.id \in registry[s] THEN Ret("component", d.session_id, d.id)
        ELSE IF miss = "raises" THEN fallback
        ELSE Ret("none", NoSession, NoId)

\* decode_js(d), lines 472-478: the session is taken by index, the instance
\* by get_instance; what is found and truthy is returned, else the marker.
JsDecodeOutcome(d, miss) ==
    LET s == IF "session_id" \in DOMAIN d THEN SessionById(d.session_id) ELSE NoSession
    IN  IF s = NoSession THEN Ret("unknown_component", NoSession, NoId)
        ELSE IF "id" \in DOMAIN d /\ d.id \in registry[s]
        THEN Ret("component", d.session_id, d.id)
        ELSE IF miss = "raises" THEN Ret("raised", NoSession, NoId)
        ELSE Ret("unknown_component", NoSession, NoId)

DecodeOutcome(d, js, miss) ==
    IF js THEN JsDecodeOutcome(d, miss) ELSE PyDecodeOutcome(d, miss)

\* The reference of an encoded value, as the serializer hands it to decode.
AsReference(r) == [session_id |-> r.session_id, id |-> r.id]

\* The references handed to decode: every pairing of a known or unknown
\* session id with a known or unknown component id, and a reference that
\* lacks its id.
References ==
    [session_id : SessionIds \cup {UnknownSessionId}, id : KnownIds \cup {UnknownId}]

PartialReferences == [session_id : SessionIds \cup {UnknownSessionId}]

codecUnchanged ==
    UNCHANGED <<localVars, registry, chan, up, proxyVars, set_calls, histVars,
                p_event_types, nops, pairVars, mirrorVars>>

\* The serializer encodes component c.
Encode(c, js) ==
    /\ Exists(c)
    /\ LET r == EncodeOutcome(CompSessions(c), CompId(c))
       IN  last' = OpRet("encode", c, IF js THEN "js" ELSE "py", NoInfo, <<>>, <<>>,
                         IF r.kind = "raised" THEN "AssertionError" ELSE "", r)
    /\ codecUnchanged

\* The serializer decodes reference d, in the runtime js tells.
Decode(d, js, miss) ==
    /\ LET r == DecodeOutcome(d, js, miss)
       IN  last' = OpRet("decode", NoSession, IF js THEN "js" ELSE "py", d, <<>>, <<>>,
                         IF r.kind = "raised" THEN "LookupError" ELSE "", r)
    /\ codecUnchanged

\* Component c is encoded in one runtime and the reference decoded in dec_js.
RoundTrip(c, enc_js, dec_js, miss) ==
    /\ Exists(c)
    /\ LET e == EncodeOutcome(CompSessions(c), CompId(c))
           r == IF e.kind = "raised" THEN e
                ELSE DecodeOutcome(AsReference(e), dec_js, miss)
       IN  last' = OpRet("round_trip", c, IF dec_js THEN "js" ELSE "py", NoInfo,
                         <<>>, <<>>,
                         IF e.kind = "raised" THEN "AssertionError"
                         ELSE IF r.kind = "raised" THEN "LookupError" ELSE "", r)
    /\ codecUnchanged

-----------------------------------------------------------------------------
(* AppComponentMeta: the class made for JavaScript from an authored class *)

\* The names a class body may bind: ordinary names, a name that ends in
\* _validate, and a name that starts and ends with two underscores.
PlainNames == {"foo", "spam"}
ValidateNames == {"count_validate"}
DunderNames == {"__repr__"}
MemberNames == PlainNames \cup ValidateNames \cup DunderNames

\* What a name is bound to in cls.__dict__ once the metaclass of the event
\* primitive has run: a descriptor, a function, or some other value.  A
\* descriptor knows its name.
Descriptors == {"Property", "EmitterDescriptor", "ActionDescriptor", "ReactionDescriptor"}
Kinds == Descriptors \cup {"function", "value"}
Member(kind, name) == [kind |-> kind, name |-> name]

IsDunder(name) == name \in DunderNames
EndsWithValidate(name) == name \in ValidateNames
Callable(val) == val.kind = "function"

\* make_proxy_action(action), lines 38-45: a function that calls
\* self._proxy_action(action._name, *args).
make_proxy_action_anonymous(action) == [kind |-> "flx_proxy_action", name |-> ""]

make_proxy_action(action) == [kind |-> "flx_proxy_action", name |-> action.name]

\* What a call stub(self, *args) of the function does.
StubCall(stub, args) == [method |-> "_proxy_action", args |-> <<stub.name>> \o args]

\* _make_js_proxy_class, lines 114-140: the class (cls) is left as it is;
\* the dict of cls.JS gets the properties and a stub for every action.
MakeJsProxyClass(dict) ==
    LET taken == {n \in DOMAIN dict :
                    /\ ~IsDunder(n)
                    /\ dict[n].kind \in {"Property", "ActionDescriptor"}}
    IN  [cls |-> dict,
         js  |-> [n \in taken |-> IF dict[n].kind = "Property" THEN dict[n]
                                  ELSE make_proxy_action(dict[n])]]

\* _make_js_local_class, lines 142-173: properties and validators are copied
\* to the dict of cls.JS; emitters are passed over; an action goes to the
\* dict and is replaced by a stub on cls; anything else is moved from cls to
\* the dict.
MakeJsLocalClass_leavesBehind(dict) ==
    LET names == {n \in DOMAIN dict : ~IsDunder(n)}
        copied == {n \in names : \/ dict[n].kind = "Property"
                                 \/ Callable(dict[n]) /\ EndsWithValidate(n)}
        emitters == {n \in names \ copied : dict[n].kind = "EmitterDescriptor"}
        actions == {n \in names \ (copied \cup emitters) :
                      dict[n].kind = "ActionDescriptor"}
        moved == names \ (copied \cup emitters \cup actions)
    IN  [cls |-> [n \in DOMAIN dict |->
                    IF n \in actions THEN make_proxy_action(dict[n]) ELSE dict[n]],
         js  |-> [n \in copied \cup actions \cup moved |-> dict[n]]]

MakeJsLocalClass(dict) ==
    LET names == {n \in DOMAIN dict : ~IsDunder(n)}
        copied == {n \in names : \/ dict[n].kind = "Property"
                                 \/ Callable(dict[n]) /\ EndsWithValidate(n)}
        emitters == {n \in names \ copied : dict[n].kind = "EmitterDescriptor"}
        actions == {n \in names \ (copied \cup emitters) :
                      dict[n].kind = "ActionDescriptor"}
        moved == names \ (copied \cup emitters \cup actions)
    IN  [cls |-> [n \in DOMAIN dict \ moved |->
                    IF n \in actions THEN make_proxy_action(dict[n]) ELSE dict[n]],
         js  |-> [n \in copied \cup actions \cup moved |-> dict[n]]]

\* The kinds a name may be bound to: any for an ordinary name; a property,
\* a function or a value for the other names.
KindsFor(n) == IF n \in PlainNames THEN Kinds ELSE {"Property", "function", "value"}

\* The class bodies over the names S.
AuthoredOver(S) ==
    {[n \in S |-> Member(k[n], n)] :
        k \in {f \in [S -> Kinds] : \A n \in S : f[n] \in KindsFor(n)}}

componentVars ==
    <<localVars, registry, chan, up, proxyVars, set_calls, histVars, p_event_types, nops>>

\* AppComponentMeta._init_hook, lines 94-100: the class for JavaScript is
\* made once, when the class statement is executed.
InitHook ==
    /\ last.op = "class_body"
    /\ LET r == IF base = "LocalComponent" THEN MakeJsProxyClass(cls_dict)
                ELSE MakeJsLocalClass(cls_dict)
       IN  /\ cls_dict' = r.cls
           /\ js_dict' = r.js
    /\ last' = Op("init_hook", NoSession, base, cls_dict, <<>>, <<>>, "")
    /\ UNCHANGED <<base, componentVars, mirrorVars>>

-----------------------------------------------------------------------------
(* zoof.ui.mirrored: props, objects that have props, mirrored objects *)

\* A Python value: its type, for a tuple or a list the type of its items,
\* and what it holds. An int holds itself, a float holds twice its value
\* (so that halves can be written), a str holds its character codes, a
\* tuple or a list holds per item the int or the code of a str of one
\* character. The empty tuple and the empty list have no item type.
PyInt(n) == [type |-> "int", of |-> "", items |-> <<n>>]
PyFloat(twice) == [type |-> "float", of |-> "", items |-> <<twice>>]
PyStr(codes) == [type |-> "str", of |-> "", items |-> codes]
PyTuple(of, items) == [type |-> "tuple", of |-> of, items |-> items]
PyList(of, items) == [type |-> "list", of |-> of, items |-> items]
PyNone == [type |-> "NoneType", of |-> "", items |-> <<>>]

\* isinstance(val, types), and the same for every item of a tuple or list.
IsInstance(val, types) == val.type \in types
ItemsAreInstances(val, types) == val.items = <<>> \/ val.of \in types

\* int(val) for an int or a float: a float is truncated towards zero.
IntOf(val) ==
    LET x == val.items[1]
    IN  IF val.type = "int" THEN x
        ELSE IF x >= 0 THEN x \div 2 ELSE -((-x) \div 2)

\* hash(n) for a small int n: the int itself, but -1 is never a hash.
IntHash(n) == IF n = -1 THEN -2 ELSE n

\* hash(val) raises TypeError for a list.
Hashable(val) == val.type # "list"

\* hash(val) for a hashable value, written as what determines it: a number
\* hashes as the int it equals if there is one, a str by its characters
\* (different strs are taken to have different hashes), a tuple by the
\* hashes of its items in order.
Hash(val) ==
    CASE val.type = "int" ->
            [type |-> "number", of |-> "", h |-> <<IntHash(val.items[1])>>]
      [] val.type = "float" ->
            IF val.items[1] % 2 = 0
                THEN [type |-> "number", of |-> "", h |-> <<IntHash(val.items[1] \div 2)>>]
                ELSE [type |-> "float", of |-> "", h |-> val.items]
      [] val.type = "tuple" ->
            [type |-> "tuple", of |-> val.of,
             h |-> [i \in 1..Len(val.items) |->
                      IF val.of = "int" THEN IntHash(val.items[i]) ELSE val.items[i]]]
      [] OTHER -> [type |-> val.type, of |-> "", h |-> val.items]

\* What validate gives: the cleaned value, or the error it raises.
Valid(val) == [err |-> "", value |-> val]
Invalid(err, val) == [err |-> err, value |-> val]

\* Int.validate, lines 222-228.
IntValidate(val) ==
    IF ~IsInstance(val, {"int", "float"}) THEN Invalid("ValueError", val)
    ELSE Valid(PyInt(IntOf(val)))

\* Str.validate, lines 240-246.
StrValidate(val) ==
    IF ~IsInstance(val, {"str"}) THEN Invalid("ValueError", val) ELSE Valid(val)

\* Tuple.validate, lines 257-269: a tuple or a list whose items are all of
\* the item types is returned as it is.
TupleValidate(val, item_types) ==
    IF IsInstance(val, {"tuple", "list"})
        THEN IF ItemsAreInstances(val, item_types) THEN Valid(val)
             ELSE Invalid("ValueError", val)
        ELSE Invalid("ValueError", val)

\* The props that the classes at hand declare: size = Int() and
\* names = Tuple(str) on a class with props, name = Str() on Mirrored.
PropClass(name) ==
    CASE name = "size" -> "Int" [] name = "names" -> "Tuple" [] name = "name" -> "Str"

\* Prop._default of each class of prop: 0, () and ''.
Default(name) ==
    CASE PropClass(name) = "Int" -> PyInt(0)
      [] PropClass(name) = "Tuple" -> PyTuple("", <<>>)
      [] PropClass(name) = "Str" -> PyStr(<<>>)

Validate(name, val) ==
    CASE PropClass(name) = "Int" -> IntValidate(val)
      [] PropClass(name) = "Tuple" -> TupleValidate(val, {"str"})
      [] PropClass(name) = "Str" -> StrValidate(val)

\* HasPropsMeta.__init__, lines 141-162, then HasProps.__init__ before its
\* keyword arguments: the object reads the default and the hash of the
\* default of each prop from its class, and has an empty _changed_props.
NewObject(props) ==
    [value |-> [n \in props |-> Default(n)],
     hash |-> [n \in props |-> Hash(Default(n))],
     changed |-> {}]

\* The object at hand.
Self == [value |-> m_value, hash |-> m_hash, changed |-> m_changed]

\* What an assignment gives: the error it raises and the object after it.
Done(err, obj) == [err |-> err, obj |-> obj]

\* Prop._get, lines 118-122.
PropGet(obj, name) == obj.value[name]

\* Prop.__set__, lines 71-94.
PropSet(obj, name, value) ==
    LET v == Validate(name, value)
    IN  IF v.err # "" THEN Done(v.err, obj)
        ELSE IF ~Hashable(v.value) THEN Done("TypeError", obj)
        ELSE IF Hash(v.value) = obj.hash[name] THEN Done("", obj)
        ELSE Done("", [value |-> [obj.value EXCEPT ![name] = v.value],
                       hash |-> [obj.hash EXCEPT ![name] = Hash(v.value)],
                       changed |-> obj.changed \cup {name}])

\* Names that start with an underscore and store no prop.
PrivateNames == {"_x"}

\* HasProps.__setattr__, lines 200-210: a private name is set as on any
\* object, a prop is set by its descriptor, any other name is refused.
PropSetAttr_storesFirst(obj, name, value) ==
    IF name \in PrivateNames THEN Done("", obj)
    ELSE IF name \in DOMAIN obj.value
        THEN LET r == PropSet(obj, name, value)
             IN  IF r.err = "" THEN r
                 ELSE Done(r.err, [obj EXCEPT !.changed = @ \cup {name}])
    ELSE Done("AttributeError", obj)

PropSetAttr(obj, name, value) ==
    IF name \in PrivateNames THEN Done("", obj)
    ELSE IF name \in DOMAIN obj.value THEN PropSet(obj, name, value)
    ELSE Done("AttributeError", obj)

\* The values that are assigned: ints, the floats -1.5 and 1.5, the str
\* 'w', the tuples (), ('a',) and (1,), the list ['a'], and None.
PyValues ==
    {PyInt(n) : n \in -2..MaxVal}
        \cup {PyFloat(-3), PyFloat(3), PyStr(<<119>>), PyNone,
              PyTuple("", <<>>), PyTuple("str", <<97>>), PyTuple("int", <<1>>),
              PyList("str", <<97>>)}

\* The names that are assigned to: the props, a public name that is no
\* prop, and a private name.
AttrNames == {"size", "names", "colour"} \cup PrivateNames

\* obj.name = value on the object at hand. The operation keeps what was
\* assigned, the object before it and the error raised.
SetAttr(name, value) ==
    /\ last.op # "none"
    /\ LET r == PropSetAttr(Self, name, value)
       IN  /\ m_value' = r.obj.value
           /\ m_hash' = r.obj.hash
           /\ m_changed' = r.obj.changed
           /\ last' = Op("setattr", NoSession, name,
                         [value |-> value, before |-> Self],
                         <<>>, <<>>, r.err)
    /\ UNCHANGED <<m_counter, m_ids, componentVars, pairVars>>

\* HasProps.reset_changed_props, lines 185-186.
ResetChangedProps ==
    /\ last.op # "none"
    /\ m_changed' = {}
    /\ last' = Op("reset_changed_props", NoSession, "", NoInfo, <<>>, <<>>, "")
    /\ UNCHANGED <<m_value, m_hash, m_counter, m_ids, componentVars, pairVars>>

\* HasProps.__init__, lines 170-176: the keyword arguments are assigned in
\* order, the first error ends the construction, and the changes made by
\* the constructor are forgotten.
RECURSIVE AssignAll(_, _)
AssignAll(obj, kwargs) ==
    IF kwargs = <<>> THEN Done("", obj)
    ELSE LET r == PropSetAttr(obj, kwargs[1][1], kwargs[1][2])
         IN  IF r.err # "" THEN r ELSE AssignAll(r.obj, Tail(kwargs))

HasPropsInit(props, kwargs) ==
    LET r == AssignAll(NewObject(props), kwargs)
    IN  IF r.err # "" THEN r ELSE Done("", [r.obj EXCEPT !.changed = {}])

\* str(n) for a natural number n.
Digit(d) ==
    CASE d = 0 -> "0" [] d = 1 -> "1" [] d = 2 -> "2" [] d = 3 -> "3"
      [] d = 4 -> "4" [] d = 5 -> "5" [] d = 6 -> "6" [] d = 7 -> "7"
      [] d = 8 -> "8" [] d = 9 -> "9"

RECURSIVE Str(_)
Str(n) == IF n < 10 THEN Digit(n) ELSE Str(n \div 10) \o Digit(n % 10)

\* The id given to the instance of the class that is created when the
\* counter has been raised to n, line 341.
MirroredId(clsname, n) == clsname \o Str(n)

\* The names of the subclasses of Mirrored that are instantiated.
ClassNames == {"Widget", "Widget1"}

\* The keyword arguments a Mirrored is created with: none, name='w', name=1.
Kwargs == {<<>>, <<<<"name", PyStr(<<119>>)>>>>, <<<<"name", PyInt(1)>>>>}

\* Mirrored.__init__, lines 336-352: the object is made with its props,
\* the counter of the class Mirrored is raised, the id is made of the name
\* of the class and the counter, and the command that creates the mirror
\* object is executed by the app. An error of the keyword arguments ends
\* the construction before the counter is touched.
MirroredInit(clsname, kwargs) ==
    /\ m_counter < MaxCreations
    /\ LET r == HasPropsInit({"name"}, kwargs)
           id == MirroredId(clsname, m_counter + 1)
       IN  IF r.err # ""
           THEN /\ last' = Op("mirrored_init", NoSession, clsname,
                              [kwargs |-> kwargs], <<>>, <<>>, r.err)
                /\ UNCHANGED mirrorVars
           ELSE /\ m_value' = r.obj.value
                /\ m_hash' = r.obj.hash
                /\ m_changed' = r.obj.changed
                /\ m_counter' = m_counter + 1
                /\ m_ids' = Append(m_ids, id)
                /\ last' = Op("mirrored_init", NoSession, clsname,
                              [kwargs |-> kwargs],
                              <<[id |-> id, clsname |-> clsname,
                                 props |-> r.obj.value]>>,
                              <<>>, "")
    /\ UNCHANGED <<componentVars, pairVars>>

-----------------------------------------------------------------------------
(* The LocalComponent and the commands it sends *)

InitComponents ==
    /\ lpc = "none"
    /\ l_id = NoId
    /\ l_sessions = <<>>
    /\ l_disposed = FALSE
    /\ l_value = DefaultValue
    /\ event_types_at_proxy = NoInfo
    /\ registry = [s \in Sessions |-> {}]
    /\ chan = [s \in Sessions |-> <<>>]
    /\ up = [s \in Sessions |-> <<>>]
    /\ ppc = [s \in Sessions |-> "none"]
    /\ p_id = [s \in Sessions |-> NoId]
    /\ p_sessions = [s \in Sessions |-> <<>>]
    /\ p_disposed = [s \in Sessions |-> FALSE]
    /\ p_value = [s \in Sessions |-> DefaultValue]
    /\ p_init_args = [s \in Sessions |-> NoArgs]
    /\ set_calls = NoInfo
    /\ l_emitted = <<>>
    /\ p_applied = [s \in Sessions |-> <<>>]
    /\ p_event_types = [s \in Sessions |-> {}]
    /\ nops = 0

\* No class statement is under way.
InitNoClass ==
    /\ base = ""
    /\ cls_dict = NoInfo
    /\ js_dict = NoInfo

\* No object with props is at hand.
InitNoProps ==
    /\ m_value = NoInfo
    /\ m_hash = NoInfo
    /\ m_changed = {}
    /\ m_counter = 0
    /\ m_ids = <<>>

Init ==
    /\ InitComponents
    /\ InitNoClass
    /\ InitNoProps
    /\ last = Op("none", NoSession, "", NoInfo, <<>>, <<>>, "")

\* A class statement with a body over some of the names, for a subclass of
\* PyComponent (a LocalComponent) or of JsComponent (a ProxyComponent).
InitPairing ==
    /\ InitComponents
    /\ InitNoProps
    /\ base \in {"LocalComponent", "ProxyComponent"}
    /\ \E S \in SUBSET MemberNames : cls_dict \in AuthoredOver(S)
    /\ js_dict = NoInfo
    /\ last = Op("class_body", NoSession, "", NoInfo, <<>>, <<>>, "")

NextPairing == InitHook

SpecPairing == InitPairing /\ [][NextPairing]_vars

\* An object of a class that declares the props size and names, after its
\* constructor without keyword arguments.
InitProps ==
    /\ InitComponents
    /\ InitNoClass
    /\ m_value = NewObject({"size", "names"}).value
    /\ m_hash = NewObject({"size", "names"}).hash
    /\ m_changed = NewObject({"size", "names"}).changed
    /\ m_counter = 0
    /\ m_ids = <<>>
    /\ last = Op("has_props_init", NoSession, "", NoInfo, <<>>, <<>>, "")

NextProps ==
    \/ \E name \in AttrNames, value \in PyValues : SetAttr(name, value)
    \/ ResetChangedProps

SpecProps == InitProps /\ [][NextProps]_vars

\* No Mirrored has been created: the counter of the class is 0.
InitMirrored ==
    /\ InitComponents
    /\ InitNoClass
    /\ InitNoProps
    /\ last = Op("import", NoSession, "", NoInfo, <<>>, <<>>, "")

NextMirrored ==
    \E clsname \in ClassNames, kwargs \in Kwargs : MirroredInit(clsname, kwargs)

SpecMirrored == InitMirrored /\ [][NextMirrored]_vars

Next ==
    \/ \E flx_id \in {NoId, 7}, flx_session \in Sessions \cup {NoSession},
          init_args \in {<<>>, <<1>>} :
          LocalCompInit(FALSE, flx_id, flx_session, init_args)
    \/ \E flx_session \in Sessions, init_args \in {<<>>, <<1>>} :
          LocalCompInit(TRUE, 7, flx_session, init_args)
    \/ \E s \in Sessions : Attach(s)
    \/ LocalReady
    \/ \E session_id \in SessionIds, event_types \in SUBSET EventNames :
          SetEventTypes(session_id, event_types)
    \/ \E in \in EmitInputs : LocalEmit(in[1], in[2])
    \/ LocalDispose

Spec == Init /\ [][Next]_vars

\* One ProxyComponent, made in either runtime, and the operations on it.
NextProxy ==
    \/ \E s \in Sessions, flx_id \in {NoId, 7}, has_session \in BOOLEAN,
          init_args \in {<<>>, <<1>>} :
          /\ \A t \in Sessions : ppc[t] = "none"
          /\ ProxyCompInit(s, FALSE, flx_id, IF has_session THEN s ELSE NoSession,
                           init_args)
    \/ \E s \in Sessions, init_args \in {<<>>, <<1>>} :
          /\ \A t \in Sessions : ppc[t] = "none"
          /\ ProxyCompInit(s, TRUE, 7, s, init_args)
    \/ \E s \in Sessions, name \in ActionNames, v \in Values : ProxyAction(s, name, <<v>>)
    \/ \E s \in Sessions, v \in Values : ProxyMutate(s, "count", v)
    \/ \E s \in Sessions : \E ev \in InboundCountEvents : EmitFromOtherSide(s, ev)
    \/ \E s \in Sessions : \E ev \in InboundListEvents(s) : EmitFromOtherSide(s, ev)
    \/ \E s \in Sessions : \E ev \in InboundRemoveEvents(s) : EmitFromOtherSide(s, ev)
    \/ \E s \in Sessions : \E ev \in InboundPlainEvents : EmitFromOtherSide(s, ev)
    \/ \E s \in Sessions, event_types \in SUBSET EventNames, send_fails \in BOOLEAN :
          RegisteredReactionsHook(s, event_types, send_fails)
    \/ \E s \in Sessions : ProxyDispose(s)

SpecProxy == Init /\ [][NextProxy]_vars

\* A LocalComponent whose count is assigned, the sessions delivering its
\* commands to the proxies.  Every session keeps delivering.
NextSync ==
    \/ \E flx_session \in Sessions \cup {NoSession} :
          LocalCompInit(FALSE, NoId, flx_session, <<>>)
    \/ \E s \in Sessions : Attach(s)
    \/ LocalReady
    \/ \E v \in Values \cup {BadValue} : LocalSetCount(v)
    \/ LocalDispose
    \/ \E s \in Sessions : Deliver(s)

SpecSync ==
    /\ Init
    /\ [][NextSync]_vars
    /\ \A s \in Sessions : WF_vars(Deliver(s))

\* A LocalComponent and the proxies its sessions make for it; the reactions
\* of the proxies come to care about other event types and the proxies push
\* them, the sessions delivering in both directions.  send_command works
\* here, and every session keeps delivering.
NextSubscribe ==
    \/ \E flx_session \in Sessions \cup {NoSession} :
          LocalCompInit(FALSE, NoId, flx_session, <<>>)
    \/ \E s \in Sessions : Attach(s)
    \/ LocalReady
    \/ \E s \in Sessions : Deliver(s)
    \/ \E s \in Sessions, event_types \in SUBSET EventNames :
          /\ nops < MaxHooks
          /\ RegisteredReactionsHook(s, event_types, FALSE)
    \/ \E s \in Sessions : nops < MaxHooks /\ ProxyDispose(s)
    \/ \E s \in Sessions : DeliverUp(s)

SpecSubscribe ==
    /\ Init
    /\ [][NextSubscribe]_vars
    /\ \A s \in Sessions : WF_vars(Deliver(s)) /\ WF_vars(DeliverUp(s))

\* The same, the LocalComponent emitting as well: commands flow in both
\* directions.
NextDuplex ==
    \/ NextSubscribe
    \/ \E in \in EmitInputs : nops < MaxHooks /\ LocalEmit(in[1], in[2])

SpecDuplex == Init /\ [][NextDuplex]_vars

\* Components of either kind, attached to no, one or several sessions, and
\* the serializer encoding them and decoding references.
NextCodec ==
    \/ \E flx_id \in {NoId, 7}, flx_session \in Sessions \cup {NoSession} :
          LocalCompInit(FALSE, flx_id, flx_session, <<>>)
    \/ \E s \in Sessions : Attach(s)
    \/ LocalReady
    \/ \E s \in Sessions :
          /\ \A t \in Sessions : ppc[t] = "none"
          /\ ProxyCompInit(s, FALSE, NoId, s, <<>>)
    \/ \E c \in Components, js \in BOOLEAN : Encode(c, js)
    \/ \E d \in References, js \in BOOLEAN, miss \in MissOutcomes : Decode(d, js, miss)
    \/ \E d \in PartialReferences, js \in BOOLEAN, miss \in MissOutcomes :
          Decode(d, js, miss)
    \/ \E c \in Components, enc_js, dec_js \in BOOLEAN, miss \in MissOutcomes :
          RoundTrip(c, enc_js, dec_js, miss)

SpecCodec == Init /\ [][NextCodec]_vars

-----------------------------------------------------------------------------
(* Claims about LocalComponent.emit and _set_event_types, under Spec *)

\* The send_command calls of the latest operation that went to session s.
SendsTo(s) == SelectSeq(last.sends, LAMBDA call : call[1] = s)

\* The command is the INVOKE of _emit_from_other_side for the latest emit:
\* it names the component and carries the event record (the type and every
\* field of info).
IsEmitInvoke(c) ==
    /\ c.kind = "INVOKE"
    /\ c.id = l_id
    /\ c.name = "_emit_from_other_side"
    /\ Len(c.args) = 1
    /\ DOMAIN c.args[1] = DOMAIN last.info \cup {"type"}
    /\ c.args[1].type = last.type
    /\ \A k \in DOMAIN last.info \ {"type"} : c.args[1][k] = last.info[k]

\* The latest operation sent exactly one command to s, the INVOKE of the
\* emit, and it is the newest command in the queue of s.
GotTheEmit(s) ==
    /\ Len(SendsTo(s)) = 1
    /\ IsEmitInvoke(SendsTo(s)[1][2])
    /\ chan[s] # <<>>
    /\ chan[s][Len(chan[s])] = SendsTo(s)[1][2]

Subscribed(s, type) ==
    /\ SessionId(s) \in DOMAIN event_types_at_proxy
    /\ type \in event_types_at_proxy[SessionId(s)]

\* C1: an emit of a property event on a LocalComponent that is not disposed
\* sends exactly one INVOKE of _emit_from_other_side, carrying the event, to
\* each attached session and nothing to any other session, whatever the
\* subscription table holds.
C1_PropertyEmitReachesEverySession ==
    (last.op = "emit" /\ last.type \in Properties /\ ~l_disposed) =>
        \A s \in Sessions :
            IF s \in Range(l_sessions) THEN GotTheEmit(s) ELSE SendsTo(s) = <<>>

\* A property event was emitted to two sessions, one without an entry in the
\* table and one with an empty entry.
C1_Witness ==
    /\ last.op = "emit" /\ last.type = "count" /\ ~l_disposed
    /\ Len(l_sessions) = 2 /\ Len(last.sends) = 2
    /\ \E s \in Range(l_sessions) : SessionId(s) \notin DOMAIN event_types_at_proxy
    /\ \E s \in Range(l_sessions) :
          /\ SessionId(s) \in DOMAIN event_types_at_proxy
          /\ event_types_at_proxy[SessionId(s)] = {}

\* C2: an emit of an event that is not a property, on a LocalComponent that
\* is not disposed, sends the INVOKE to an attached session exactly when the
\* type is in the set recorded for that session's id; a session with no
\* entry, an empty entry or an entry without the type is sent nothing.
C2_EventEmitReachesSubscribersOnly ==
    (last.op = "emit" /\ last.type \notin Properties /\ ~l_disposed) =>
        \A s \in Sessions :
            IF s \in Range(l_sessions) /\ Subscribed(s, last.type)
            THEN GotTheEmit(s)
            ELSE SendsTo(s) = <<>>

\* "clicked" was emitted with two sessions attached: one subscribed to it and
\* was sent the INVOKE, the other has no entry and was sent nothing.
C2_Witness ==
    /\ last.op = "emit" /\ last.type = "clicked" /\ ~l_disposed
    /\ Len(l_sessions) = 2
    /\ \E a, b \in Range(l_sessions) :
          /\ Subscribed(b, "clicked") /\ Len(SendsTo(b)) = 1
          /\ SessionId(a) \notin DOMAIN event_types_at_proxy /\ SendsTo(a) = <<>>

\* C3 as stated: after _set_event_types(sid, types) on a LocalComponent
\* attached to the session sid, an emit is forwarded to that session exactly
\* when its type is in types.
C3_AsStated ==
    last.op = "emit" =>
        \A s \in Range(l_sessions) :
            SessionId(s) \in DOMAIN set_calls =>
                (SendsTo(s) # <<>> <=> last.type \in set_calls[SessionId(s)])

\* C3, amended: after _set_event_types(sid, types) on a LocalComponent that
\* is not disposed and is attached to the session sid, an emit is forwarded
\* to that session exactly when its type is in types or names a property.
C3_ForwardedIffSetOrProperty ==
    (last.op = "emit" /\ ~l_disposed) =>
        \A s \in Range(l_sessions) :
            SessionId(s) \in DOMAIN set_calls =>
                IF last.type \in set_calls[SessionId(s)] \/ last.type \in Properties
                THEN GotTheEmit(s)
                ELSE SendsTo(s) = <<>>

\* _set_event_types was called twice for an attached session, the second
\* call dropping "moved"; then "moved" was emitted and not forwarded.
C3_Witness ==
    /\ last.op = "emit" /\ last.type = "moved" /\ ~l_disposed
    /\ nops = 3
    /\ \E s \in Range(l_sessions) :
          /\ SessionId(s) \in DOMAIN set_calls
          /\ set_calls[SessionId(s)] = {"clicked"}
          /\ SendsTo(s) = <<>>

\* C4: the disposed flag stays set, and an emit on a disposed LocalComponent
\* sends no command to any session and raises nothing.
C4_NoForwardingOnceDisposed ==
    [][/\ l_disposed => l_disposed'
       /\ (l_disposed /\ last'.op = "emit") =>
              (chan' = chan /\ last'.sends = <<>> /\ last'.err = "")]_vars

\* An event that an attached session subscribed to was emitted after the
\* component was disposed.
C4_Witness ==
    /\ last.op = "emit" /\ l_disposed
    /\ \E s \in Range(l_sessions) : Subscribed(s, last.type)

-----------------------------------------------------------------------------
(* Claims about ProxyComponent, under SpecProxy *)

\* C5, which the code does not meet: a call of a forwarding stub on a
\* disposed ProxyComponent sends no INVOKE and raises nothing.
C5_NoInvokeOnceDisposed ==
    (last.op = "proxy_action" /\ p_disposed[last.who]) =>
        (last.sends = <<>> /\ last.err = "")

\* C6: a direct mutation of a ProxyComponent raises, and it changes no
\* property value, emits nothing here and sends nothing to any session.
C6_DirectMutationFails ==
    [][last'.op = "proxy_mutate" =>
          /\ last'.err = "RuntimeError"
          /\ p_value' = p_value
          /\ last'.emits = <<>>
          /\ last'.sends = <<>>
          /\ up' = up /\ chan' = chan]_vars

\* A direct mutation with a value other than the stored one was refused.
C6_Witness ==
    /\ last.op = "proxy_mutate" /\ last.err = "RuntimeError"
    /\ last.info.new_value # p_value[last.who].count

\* C7: _proxy_action(name, *args) on a ProxyComponent with its one session
\* sends that session exactly one INVOKE with the id of the component, the
\* name and the arguments, sends nothing else, and changes neither the
\* property values nor the sessions of the proxy.
C7_ProxyActionSendsOneInvoke ==
    [][(last'.op = "proxy_action" /\ Len(p_sessions[last'.who]) = 1) =>
          LET s == last'.who
              to == p_sessions[s][1]
          IN  /\ Len(up'[to]) = Len(up[to]) + 1
              /\ SubSeq(up'[to], 1, Len(up[to])) = up[to]
              /\ LET c == up'[to][Len(up'[to])]
                 IN  /\ c.kind = "INVOKE" /\ c.id = p_id[s]
                     /\ c.name = last'.type /\ c.args = last'.info
              /\ \A t \in Sessions \ {to} : up'[t] = up[t]
              /\ chan' = chan
              /\ Len(last'.sends) = 1
              /\ p_value' = p_value /\ p_sessions' = p_sessions
              /\ last'.emits = <<>> /\ last'.err = ""]_vars

\* "submit" was called with an argument on a proxy whose count is not the
\* default, and one command was sent.
C7_Witness ==
    /\ last.op = "proxy_action" /\ last.type = "submit" /\ last.info = <<1>>
    /\ Len(last.sends) = 1
    /\ p_value[last.who].count # DefaultValue.count

\* C8: _emit_from_other_side(ev) with a property event that carries a
\* mutation stores ev.new_value as it is for "set" (valid or not), applies
\* the positional edit (ev.objects, tag, ev.index) for any other tag (the
\* inserted objects then stand at index, the elements around them kept in
\* order), leaves the other properties alone and raises nothing.
C8_InboundMutationApplied ==
    [][(last'.op = "emit_from_other_side" /\ IsMutationEvent(last'.info)) =>
          LET s == last'.who
              ev == last'.info
              old == p_value[s][ev.type]
              new == p_value'[s][ev.type]
          IN  /\ last'.err = ""
              /\ \A q \in Properties \ {ev.type} : p_value'[s][q] = p_value[s][q]
              /\ \A t \in Sessions \ {s} : p_value'[t] = p_value[t]
              /\ ev.mutation = "set" => new = ev.new_value
              /\ ev.mutation # "set" =>
                    new = ListEdit(old, ev.objects, ev.mutation, ev.index)
              /\ ev.mutation = "insert" =>
                    /\ Len(new) = Len(old) + Len(ev.objects)
                    /\ \A k \in 1..Len(ev.objects) : new[ev.index + k] = ev.objects[k]
                    /\ \A k \in 1..ev.index : new[k] = old[k]
                    /\ \A k \in (ev.index + 1)..Len(old) : new[k + Len(ev.objects)] = old[k]]_vars

\* An insert of one object at index 2 was applied: the object is the third
\* element of the stored list.
C8_Witness ==
    /\ last.op = "emit_from_other_side"
    /\ IsMutationEvent(last.info)
    /\ last.info.mutation = "insert" /\ last.info.index = 2
    /\ Len(p_value[last.who].items) = 3
    /\ p_value[last.who].items[3] = last.info.objects[1]
    /\ p_value[last.who].items[1] # last.info.objects[1]

\* C9: _emit_from_other_side(ev) with an event that is no property, or that
\* carries no mutation, changes no property value and emits exactly one
\* event here, of type ev.type and with the fields of ev.
C9_InboundEventEmitted ==
    [][(last'.op = "emit_from_other_side" /\ ~IsMutationEvent(last'.info)) =>
          LET ev == last'.info
          IN  /\ p_value' = p_value
              /\ Len(last'.emits) = 1
              /\ last'.emits[1].type = ev.type
              /\ DOMAIN last'.emits[1] = DOMAIN ev
              /\ \A k \in DOMAIN ev : last'.emits[1][k] = ev[k]
              /\ last'.sends = <<>> /\ up' = up
              /\ last'.err = ""]_vars

\* An event named after a property, without a mutation, was emitted on a
\* proxy whose properties are not the defaults.
C9_Witness ==
    /\ last.op = "emit_from_other_side"
    /\ last.type = "count" /\ "mutation" \notin DOMAIN last.info
    /\ Len(last.emits) = 1
    /\ p_value[last.who] # DefaultValue

-----------------------------------------------------------------------------
(* Claims about the two runtimes together, under SpecSync *)

\* Every proxy of an attached session exists and stores the count of the
\* LocalComponent.
Converged ==
    (lpc = "live" /\ ~l_disposed) =>
        \A s \in Range(l_sessions) :
            ppc[s] = "live" /\ p_value[s].count = l_value.count

\* C10: an assignment is visible on the local side at once (the stored
\* count is the validated value when the assignment returns), and once the
\* assignments have stopped, with every session delivering, the proxies of
\* the attached sessions come to store the count of the LocalComponent and
\* keep it.
C10_EventualConsistency ==
    /\ []((last.op = "set_count" /\ last.err = "") => l_value.count = last.info.new_value)
    /\ <>[]Converged

\* Two sessions are attached, the count was assigned twice and is not the
\* default, everything was delivered and both proxies store it.
C10_Witness ==
    /\ lpc = "live" /\ ~l_disposed /\ Len(l_sessions) = 2
    /\ nops = 2 /\ l_value.count # DefaultValue.count
    /\ \A s \in Range(l_sessions) :
          chan[s] = <<>> /\ ppc[s] = "live" /\ p_value[s].count = l_value.count

-----------------------------------------------------------------------------
(* Claims about the order of the mutations at the proxies, under SpecSync *)

\* a is an initial part of b.
IsPrefix(a, b) ==
    /\ Len(a) <= Len(b)
    /\ \A i \in 1..Len(a) : a[i] = b[i]

\* The values the count of the LocalComponent has held so far.
CountsHeld ==
    {DefaultValue.count}
    \cup {l_emitted[i].new_value :
            i \in {k \in 1..Len(l_emitted) : l_emitted[k].type = "count"}}

\* C11: whatever the interleaving of assignments and deliveries, the
\* mutations applied at the proxy of a session are an initial part of the
\* property-change events the LocalComponent emitted (none applied before it
\* was emitted, none twice, none skipped or out of order), and the value of
\* the proxy is one the LocalComponent has held.
C11_AppliedIsPrefixOfEmitted ==
    \A s \in Sessions :
        ppc[s] = "live" =>
            /\ IsPrefix(p_applied[s], l_emitted)
            /\ p_value[s].count \in CountsHeld

\* Two changes were emitted; one proxy has applied both, another only the first.
C11_Witness ==
    \E s, t \in Sessions :
        /\ Len(l_emitted) = 2
        /\ ppc[s] = "live" /\ Len(p_applied[s]) = 2
        /\ ppc[t] = "live" /\ Len(p_applied[t]) = 1
        /\ p_value[s].count # p_value[t].count

-----------------------------------------------------------------------------
(* Claims about the reference codec, under SpecCodec *)

\* C12: a component attached to exactly one session, encoded and then
\* decoded against a registry that holds the session and, in it, the
\* component, comes back as the component registered under the same id.
C12_RoundTrip ==
    last.op = "round_trip" =>
        LET c == last.who
        IN  (Len(CompSessions(c)) = 1 /\ CompId(c) \in registry[CompSessions(c)[1]]) =>
                last.ret = Ret("component", SessionId(CompSessions(c)[1]), CompId(c))

\* A LocalComponent and a ProxyComponent, each with one session, came back.
C12_Witness ==
    /\ last.op = "round_trip"
    /\ last.ret.kind = "component"
    /\ last.ret.id = CompId(last.who)
    /\ last.who # NoSession
    /\ lpc = "live" /\ Len(l_sessions) = 1

\* The session of reference d is not known, or knows no component of its id.
Unresolvable(d) ==
    \/ d.session_id \notin SessionIds
    \/ d.id \notin registry[SessionById(d.session_id)]

\* C13: decoding a reference whose session is not in the session registry,
\* or whose id is not in the registry of its session, gives the raw id or
\* 'unknown_component': it does not raise and does not give nothing.
C13_UnresolvedGivesSentinel ==
    (last.op = "decode" /\ DOMAIN last.info = {"session_id", "id"}
     /\ Unresolvable(last.info)) =>
        /\ last.err = ""
        /\ last.ret.kind \in {"raw_id", "unknown_component"}

\* C14: encode gives {session_id: the id of the only session, id: the id
\* of the component} for a component with exactly one session, and fails
\* with an AssertionError, giving no value, for one with none or several.
C14_EncodeNeedsOneSession ==
    last.op = "encode" =>
        LET c == last.who
        IN  IF Len(CompSessions(c)) = 1
            THEN /\ last.err = ""
                 /\ last.ret = Ret("reference", SessionId(CompSessions(c)[1]), CompId(c))
            ELSE /\ last.err = "AssertionError"
                 /\ last.ret.kind = "raised"

\* A component with two sessions was refused.
C14_Witness ==
    /\ last.op = "encode"
    /\ Len(CompSessions(last.who)) = 2
    /\ last.err = "AssertionError"

-----------------------------------------------------------------------------
(* Claims about the construction and the sessions of a ProxyComponent,
   under SpecProxy *)

\* C15: a constructed ProxyComponent holds exactly one session handle, and
\* no operation on it (_proxy_action, _registered_reactions_hook,
\* _emit_from_other_side, a refused mutation, dispose) adds or removes one.
C15_ExactlyOneSession ==
    [][\A s \in Sessions :
          /\ ppc'[s] = "live" => Len(p_sessions'[s]) = 1
          /\ ppc[s] = "live" => p_sessions'[s] = p_sessions[s]]_vars

\* A proxy made in Python has sent an action, pushed its event types, been
\* refused a mutation: its one session is still there.
C15_Witness ==
    \E s \in Sessions :
        /\ ppc[s] = "live"
        /\ p_sessions[s] = <<s>>
        /\ Len(up[s]) >= 3
        /\ last.op = "proxy_mutate"

\* C17: a ProxyComponent constructed in the initiating (Python) runtime is
\* registered with its one session and sends it exactly one INSTANTIATE that
\* carries its init_args, which it no longer holds afterwards; one
\* constructed in the receiving (JavaScript) runtime sends nothing.
C17_ProxyConstruction ==
    (last.op = "proxy_init" /\ last.err = "") =>
        LET s == last.who
        IN  IF last.type = "py"
            THEN /\ Len(p_sessions[s]) = 1
                 /\ p_id[s] \in registry[p_sessions[s][1]]
                 /\ last.sends = <<(<<p_sessions[s][1],
                                      [kind |-> "INSTANTIATE", module |-> ModuleName,
                                       name |-> ClassName, id |-> p_id[s],
                                       args |-> last.info, kwargs |-> NoInfo]>>)>>
                 /\ up[p_sessions[s][1]] = <<last.sends[1][2]>>
                 /\ p_init_args[s] = NoArgs
            ELSE /\ last.sends = <<>>
                 /\ \A t \in Sessions : up[t] = <<>>
                 /\ p_init_args[s] = NoArgs

\* A proxy was constructed in Python with an argument.
C17_Witness ==
    /\ last.op = "proxy_init" /\ last.err = "" /\ last.type = "py"
    /\ last.info = <<1>>
    /\ Len(last.sends) = 1

\* C18: _registered_reactions_hook returns the event types the primitive
\* computed, whatever happens to the push: when send_command raises the
\* error does not leave the hook, and when the component is disposed no
\* command is sent.
C18_HookAlwaysReturns ==
    last.op = "registered_reactions_hook" =>
        /\ last.ret = last.info.event_types
        /\ last.err = ""
        /\ p_disposed[last.who] => last.sends = <<>>

\* The push of a non-empty set failed on a live proxy.
C18_Witness ==
    /\ last.op = "registered_reactions_hook"
    /\ last.info.send_fails
    /\ ~p_disposed[last.who]
    /\ last.info.event_types # {}
    /\ last.ret = last.info.event_types

-----------------------------------------------------------------------------
(* Claims about the construction of a LocalComponent, under Spec *)

\* The component is registered with s, s is in _sessions, and the latest
\* operation sent s exactly one INSTANTIATE with the module, the class name,
\* the id and the given arguments.
AttachedWith(s, args) ==
    /\ l_id \in registry[s]
    /\ s \in Range(l_sessions)
    /\ SendsTo(s) = <<(<<s, [kind |-> "INSTANTIATE", module |-> ModuleName,
                           name |-> ClassName, id |-> l_id, args |-> args,
                           kwargs |-> NoInfo]>>)>>

\* C16, as stated: a LocalComponent given a session is registered with it
\* (under the id supplied, if one was), has it in _sessions, and sends it
\* exactly one INSTANTIATE carrying the module, the class name, the id and
\* the arguments the component was constructed with.
C16_AsStated ==
    (last.op = "local_init" /\ last.who # NoSession) =>
        /\ AttachedWith(last.who, last.info.init_args)
        /\ last.info.flx_id # NoId => l_id = last.info.flx_id

\* C16, amended: in the Python runtime the INSTANTIATE carries no arguments
\* whatever the component was constructed with; in the JavaScript runtime
\* the session joins _sessions and nothing is registered or sent.
C16_AttachSendsBareInstantiate ==
    /\ (last.op = "local_init" /\ last.who # NoSession) =>
            /\ last.info.flx_id # NoId => l_id = last.info.flx_id
            /\ IF last.type = "py"
               THEN AttachedWith(last.who, <<>>) /\ l_id # NoId
               ELSE /\ last.who \in Range(l_sessions)
                    /\ last.sends = <<>>
                    /\ registry = [s \in Sessions |-> {}]
    /\ last.op = "attach" => AttachedWith(last.who, <<>>) /\ Len(last.sends) = 1

\* A component constructed in Python with an argument and no id was attached.
C16_Witness ==
    /\ last.op = "local_init" /\ last.type = "py"
    /\ last.who # NoSession
    /\ last.info.init_args = <<1>>
    /\ last.info.flx_id = NoId
    /\ Len(chan[last.who]) = 1

-----------------------------------------------------------------------------
(* Claims about the subscription table *)

\* The latest operation is a push of the event types by a proxy that is not
\* disposed: one INVOKE of _set_event_types went to its session, with the id
\* of the session and the event types.
PushedEventTypes ==
    (last.op = "registered_reactions_hook" /\ ~p_disposed[last.who]) =>
        last.sends = <<(<<last.who,
                          [kind |-> "INVOKE", module |-> "", name |-> "_set_event_types",
                           id |-> p_id[last.who],
                           args |-> <<SessionId(last.who), last.info.event_types>>,
                           kwargs |-> NoInfo]>>)>>

\* For every proxy that is not disposed, the LocalComponent has under the
\* id of its session the event types its reactions care about, and forwards
\* exactly the ordinary events of these types to it.
SubscriptionsAgree ==
    \A s \in Sessions :
        (ppc[s] = "live" /\ ~p_disposed[s]) =>
            /\ EventTypesAt(SessionId(s)) = p_event_types[s]
            /\ \A e \in EventNames : ShouldForward(e, s) <=> e \in p_event_types[s]

C20_TableChangesOnlyInSetEventTypes ==
    [][IF last'.op = "set_event_types"
       THEN /\ DOMAIN event_types_at_proxy' = DOMAIN event_types_at_proxy \cup {last'.who}
            /\ event_types_at_proxy'[last'.who] = last'.info.event_types
            /\ \A k \in DOMAIN event_types_at_proxy \ {last'.who} :
                   event_types_at_proxy'[k] = event_types_at_proxy[k]
       ELSE event_types_at_proxy' = event_types_at_proxy]_vars

\* After three calls the table has two entries, one of them put in place of
\* an older one.
C20_Witness ==
    \E a, b \in SessionIds :
        /\ a # b
        /\ DOMAIN event_types_at_proxy = {a, b}
        /\ event_types_at_proxy[a] = {"moved"}
        /\ event_types_at_proxy[b] = {"clicked"}
        /\ nops = 3
        /\ last.op = "set_event_types" /\ last.who = a

-----------------------------------------------------------------------------
(* Claims about the class pairing, under SpecPairing *)

\* The class of the side that owns the component, and the class of the
\* other side: for a subclass of PyComponent the class itself and cls.JS,
\* for a subclass of JsComponent cls.JS and the class itself.
LocalClass == IF base = "LocalComponent" THEN cls_dict ELSE js_dict
ProxyClass == IF base = "LocalComponent" THEN js_dict ELSE cls_dict

\* The class body as it was written, and its names of the given kinds.
Authored == last.info
Declared(kinds) == {n \in DOMAIN Authored : Authored[n].kind \in kinds}

\* C21: in both pairings every emitter and every reaction of the authored
\* class is on the class of the local side and not on the class of the
\* proxy side.
C21_EmittersAndReactionsLocalOnly ==
    last.op = "init_hook" =>
        \A n \in Declared({"EmitterDescriptor", "ReactionDescriptor"}) :
            /\ n \in DOMAIN LocalClass
            /\ LocalClass[n] = Authored[n]
            /\ n \notin DOMAIN ProxyClass

\* C22: in both pairings every action of the authored class is on the class
\* of the local side as it was written, and on the class of the proxy side,
\* under the same name, as a stub whose call with args does
\* _proxy_action(name, *args) and nothing else.
C22_ActionsBecomeStubs ==
    last.op = "init_hook" =>
        \A n \in Declared({"ActionDescriptor"}) :
            /\ n \in DOMAIN LocalClass
            /\ LocalClass[n] = Authored[n]
            /\ n \in DOMAIN ProxyClass
            /\ ProxyClass[n].kind = "flx_proxy_action"
            /\ \A args \in {<<>>, <<0>>, <<0, 1>>} :
                   StubCall(ProxyClass[n], args)
                       = [method |-> "_proxy_action", args |-> <<n>> \o args]

\* A subclass of JsComponent with two actions got its class for JavaScript.
C22_Witness ==
    /\ last.op = "init_hook"
    /\ base = "ProxyComponent"
    /\ Declared({"ActionDescriptor"}) = PlainNames
    /\ \A n \in PlainNames : js_dict[n].kind = "ActionDescriptor"

\* C23, as stated: in both pairings everything of the authored class that
\* is not a property or an action (and not an emitter or a reaction, which
\* C21 is about) is on the class of the local side and not on the class of
\* the proxy side.
C23_AsStated ==
    last.op = "init_hook" =>
        \A n \in Declared({"function", "value"}) :
            /\ n \in DOMAIN LocalClass
            /\ LocalClass[n] = Authored[n]
            /\ n \notin DOMAIN ProxyClass

\* C23, amended: this holds of every name that is not of the form __x__;
\* but for a subclass of JsComponent a function whose name ends in
\* _validate is on both classes, and a name of the form __x__ stays on the
\* authored class in both pairings and never gets to cls.JS.
C23_PlainMembersLocalOnly ==
    last.op = "init_hook" =>
        \A n \in Declared({"function", "value"}) :
            IF IsDunder(n)
            THEN n \in DOMAIN cls_dict /\ cls_dict[n] = Authored[n]
                 /\ n \notin DOMAIN js_dict
            ELSE /\ n \in DOMAIN LocalClass
                 /\ LocalClass[n] = Authored[n]
                 /\ n \in DOMAIN ProxyClass <=>
                        /\ base = "ProxyComponent"
                        /\ Callable(Authored[n]) /\ EndsWithValidate(n)

\* A subclass of JsComponent with a method, a class attribute, a validator
\* and a __repr__ got its class for JavaScript.
C23_Witness ==
    /\ last.op = "init_hook"
    /\ base = "ProxyComponent"
    /\ DOMAIN Authored = MemberNames
    /\ Authored["foo"].kind = "function"
    /\ Authored["spam"].kind = "value"
    /\ Authored["count_validate"].kind = "function"
    /\ DOMAIN js_dict = MemberNames \ DunderNames
    /\ DOMAIN cls_dict = ValidateNames \cup DunderNames

-----------------------------------------------------------------------------
(* Claims about the traffic between the two sides, under SpecDuplex *)

\* C24: a ProxyComponent that handles an inbound _emit_from_other_side
\* (a mutation applied, or an ordinary event emitted again) sends nothing
\* back, and an emit on the LocalComponent sends at most one command to each
\* attached session and none to any other: the exchange ends there.
C24_NoEcho ==
    [][/\ last'.op = "emit_from_other_side" =>
            /\ last'.sends = <<>>
            /\ up' = up
            /\ chan' = [chan EXCEPT ![last'.who] = Tail(@)]
       /\ last'.op = "emit" =>
            /\ up' = up
            /\ \A s \in Sessions :
                   IF s \in Range(l_sessions)
                   THEN Len(chan'[s]) <= Len(chan[s]) + 1
                   ELSE chan'[s] = chan[s]]_vars

\* An ordinary event the proxy had asked for was emitted, delivered and
\* emitted again by the proxy, and nothing is under way in either direction.
C24_Witness ==
    /\ last.op = "emit_from_other_side"
    /\ last.type \in EventNames
    /\ Len(last.emits) = 1
    /\ \A s \in Sessions : chan[s] = <<>> /\ up[s] = <<>>

\* The INSTANTIATE for id was sent to s before position i of its commands,
\* or has been delivered already (the proxy of s is there under that id).
ToldToCreate(s, id, i) ==
    \/ \E j \in 1..(i - 1) : chan[s][j].kind = "INSTANTIATE" /\ chan[s][j].id = id
    \/ ppc[s] = "live" /\ p_id[s] = id

\* C25: on every session, an INVOKE names a component that is registered
\* with the session and whose INSTANTIATE was sent on the session before
\* it (commands to the peer), or that was made for an INSTANTIATE received
\* from the session (commands from the peer); and no delivered command
\* names an id the receiving side does not know.
C25_InvokeAfterInstantiate ==
    /\ \A s \in Sessions :
          /\ \A i \in 1..Len(chan[s]) :
                 chan[s][i].kind = "INVOKE" =>
                     /\ chan[s][i].id \in registry[s]
                     /\ ToldToCreate(s, chan[s][i].id, i)
          /\ \A i \in 1..Len(up[s]) :
                 up[s][i].kind = "INVOKE" =>
                     /\ up[s][i].id \in registry[s]
                     /\ ppc[s] = "live" /\ p_id[s] = up[s][i].id
                     /\ l_id = up[s][i].id
    /\ last.err # "LookupError"

\* An INVOKE waits behind the INSTANTIATE of its component on one session
\* while the proxy of another session has pushed its event types.
C25_Witness ==
    \E s, t \in Sessions :
        /\ Len(chan[s]) = 2
        /\ chan[s][1].kind = "INSTANTIATE" /\ chan[s][2].kind = "INVOKE"
        /\ Len(up[t]) = 1 /\ up[t][1].kind = "INVOKE"

-----------------------------------------------------------------------------
(* Claims about props, under SpecProps *)

\* The latest operation assigned to a prop, and what was assigned passed
\* validate and hash.
AssignedToProp ==
    /\ last.op = "setattr"
    /\ last.type \in DOMAIN m_value
    /\ last.err = ""

\* The validated value of the latest assignment and the object before it.
Validated == Validate(last.type, last.info.value).value
Before == last.info.before

\* C26: an assignment to a prop leaves the object as it is only when the
\* validated value is the stored value; after the assignment of a validated
\* value that differs from the stored one, reading the prop gives that
\* value and the name of the prop is in _changed_props.
C26_StoresEveryDifferentValue ==
    AssignedToProp /\ Validated # PropGet(Before, last.type) =>
        /\ PropGet(Self, last.type) = Validated
        /\ last.type \in m_changed

\* The latest operation was an assignment that raised: validate refused the
\* value (ValueError), the validated value has no hash (TypeError), or the
\* name is public and no prop (AttributeError).
Rejected ==
    /\ last.op = "setattr"
    /\ \/ last.err \in {"ValueError", "TypeError"} /\ last.type \in DOMAIN m_value
       \/ last.err = "AttributeError" /\ last.type \notin DOMAIN m_value

\* C27: an assignment that is rejected leaves the stored values, the stored
\* hashes and _changed_props of the object as they were before it.
C27_RejectedAssignmentChangesNothing ==
    (last.op = "setattr" /\ last.err # "") =>
        /\ Rejected
        /\ m_value = Before.value
        /\ m_hash = Before.hash
        /\ m_changed = Before.changed

\* An unhashable value is refused by an object whose props were changed.
C27_Witness ==
    /\ Rejected
    /\ last.err = "TypeError"
    /\ m_changed = {"size", "names"}
    /\ m_value["size"] # Default("size")
    /\ m_value["names"] # Default("names")

-----------------------------------------------------------------------------
(* Claims about mirrored objects, under SpecMirrored *)

\* The ids of the instances created so far differ from each other.
IdsDistinct == \A i, j \in 1..Len(m_ids) : i # j => m_ids[i] # m_ids[j]

\* C28: after any creations of instances of subclasses of Mirrored the ids
\* of the instances created are pairwise distinct, and the counter of
\* creations never decreases.
C28_DistinctIdsAndMonotoneCounter ==
    /\ []IdsDistinct
    /\ [][m_counter' >= m_counter]_vars

====
